---- MODULE Spec2Model ----
(***************************************************************************)
(* The example programs of dataset/training_codes as one state machine.    *)
(* A behaviour is one execution of one routine: either the file's own main *)
(* (literal input, then printf) or a direct call on an input drawn from a  *)
(* bounded set.  Each action is one step of the routine's C code.          *)
(***************************************************************************)
EXTENDS Integers, Sequences, FiniteSets, TLC

VARIABLES
    prog,    \* the routine being executed
    pc,      \* position in its code
    args,    \* the arguments of the call (never modified)
    loc,     \* the routine's local variables (and modified parameters)
    stack,   \* activation records of the recursive fibonacci
    ret,     \* the returned value, None before the return
    reads,   \* the array reads made by the latest step
    ub,      \* TRUE once an operation with undefined behaviour was executed
    out      \* what main wrote to standard output

vars == <<prog, pc, args, loc, stack, ret, reads, ub, out>>

None == "none"

\* ------------------------------------------------------------- bounds
MaxTextLen == 4
MaxPatLen == 3
MaxArrLen == 4
MaxGcdArg == 9
MaxFibArg == 6

\* ------------------------------------------------------------- C int
INT_MAX == 2147483647
INT_MIN == -INT_MAX - 1

\* a + b leaves the range of int (signed overflow: undefined behaviour)
AddOverflows(a, b) ==
    \/ b > 0 /\ a > INT_MAX - b
    \/ b < 0 /\ a < INT_MIN - b

\* the two's-complement result of an overflowing a + b
AddWrapped(a, b) ==
    IF b > 0 THEN (a - INT_MAX - 1) + (b - INT_MAX - 1)
             ELSE (a + INT_MAX + 1) + (b + INT_MAX + 1)

\* The outcomes of the int addition a + b.  Without overflow it is the sum.
\* With overflow the behaviour is undefined: builds either wrap or trap
\* (-ftrapv, sanitizers).
IntAdd(a, b) ==
    IF AddOverflows(a, b)
    THEN {[trap |-> FALSE, val |-> AddWrapped(a, b), ub |-> TRUE],
          [trap |-> TRUE, val |-> 0, ub |-> TRUE]}
    ELSE {[trap |-> FALSE, val |-> a + b, ub |-> FALSE]}

\* C's remainder: the quotient truncates toward zero, so the result has the
\* sign of the dividend.
CRem(a, b) ==
    LET abs(v) == IF v < 0 THEN -v ELSE v
        r == abs(a) % abs(b)
    IN IF a < 0 THEN -r ELSE r

\* Values an out-of-bounds int read can produce (undefined behaviour).
GarbageInts == {INT_MIN, -1, 0, 1, INT_MAX}

\* The outcomes of reading a[k] (0-based) of an int array of length Len(a).
ReadInt(a, k) ==
    IF k >= 0 /\ k < Len(a) THEN {a[k + 1]} ELSE GarbageInts

\* ------------------------------------------------------------- C strings
NUL == "NUL"
Chars == {"A", "B"}

strlen(s) == Len(s)

\* The outcomes of reading s[k] of a NUL-terminated string: the terminator
\* sits at index strlen(s); further out the read is undefined.
ReadChar(s, k) ==
    IF k >= 0 /\ k < Len(s) THEN {s[k + 1]}
    ELSE IF k = Len(s) THEN {NUL}
    ELSE Chars \cup {NUL}

Rd(array, index) == [array |-> array, index |-> index]

RECURSIVE SeqsUpTo(_, _)
SeqsUpTo(S, n) ==
    IF n = 0 THEN {<< >>}
    ELSE LET shorter == SeqsUpTo(S, n - 1)
         IN shorter \cup {Append(s, x) : s \in {t \in shorter : Len(t) = n - 1}, x \in S}

\* ------------------------------------------------------------- string_search.c
MainText ==
    <<"A","B","A","B","D","A","B","A","C","D","A","B","A","B","C",
      "A","B","C","A","B","C","A","B","C","A","B","C">>
MainPattern == <<"A","B","A","B","C","A","B">>

\* the last candidate offset is left out
SearchOuterCond_Strict(i, text_len, pattern_len) == i < text_len - pattern_len

SearchOuterCond(i, text_len, pattern_len) == i <= text_len - pattern_len

\* the last pattern character is never compared
SearchInnerCond_Short(j, pattern_len) == j < pattern_len - 1

SearchInnerCond(j, pattern_len) == j < pattern_len

SearchMismatch(c, p) == c # p

\* an empty pattern is treated as not found
SearchFound_NonEmpty(j, pattern_len) == j = pattern_len /\ pattern_len > 0

SearchFound(j, pattern_len) == j = pattern_len

\* the outer index is not advanced
SearchNextI_Stuck(i) == i

SearchNextI(i) == i + 1

\* int text_len = strlen(text); int pattern_len = strlen(pattern); i = 0
SearchEntry ==
    /\ prog = "string_search" /\ pc = "entry"
    /\ loc' = [text_len |-> strlen(args.text), pattern_len |-> strlen(args.pattern),
               i |-> 0, j |-> 0]
    /\ pc' = "outer"
    /\ reads' = {}
    /\ UNCHANGED <<prog, args, stack, ret, ub, out>>

\* for (...; i <= text_len - pattern_len; ...) { int j; for (j = 0; ...
SearchOuter ==
    /\ prog = "string_search" /\ pc = "outer"
    /\ IF SearchOuterCond(loc.i, loc.text_len, loc.pattern_len)
       THEN /\ loc' = [loc EXCEPT !.j = 0]
            /\ pc' = "inner"
            /\ ret' = ret
       ELSE /\ ret' = -1
            /\ pc' = "return"
            /\ loc' = loc
    /\ reads' = {}
    /\ UNCHANGED <<prog, args, stack, ub, out>>

\* for (...; j < pattern_len; j++) if (text[i + j] != pattern[j]) break;
SearchInner ==
    /\ prog = "string_search" /\ pc = "inner"
    /\ IF SearchInnerCond(loc.j, loc.pattern_len)
       THEN /\ reads' = {Rd("text", loc.i + loc.j), Rd("pattern", loc.j)}
            /\ ub' = (ub \/ loc.i + loc.j > Len(args.text) \/ loc.j > Len(args.pattern))
            /\ \E c \in ReadChar(args.text, loc.i + loc.j),
                  p \in ReadChar(args.pattern, loc.j) :
                  IF SearchMismatch(c, p)
                  THEN pc' = "after" /\ loc' = loc
                  ELSE pc' = "inner" /\ loc' = [loc EXCEPT !.j = loc.j + 1]
       ELSE /\ reads' = {}
            /\ ub' = ub
            /\ pc' = "after"
            /\ loc' = loc
    /\ UNCHANGED <<prog, args, stack, ret, out>>

\* if (j == pattern_len) return i;   otherwise i++
SearchAfter ==
    /\ prog = "string_search" /\ pc = "after"
    /\ IF SearchFound(loc.j, loc.pattern_len)
       THEN /\ ret' = loc.i
            /\ pc' = "return"
            /\ loc' = loc
       ELSE /\ ret' = ret
            /\ pc' = "outer"
            /\ loc' = [loc EXCEPT !.i = SearchNextI(loc.i)]
    /\ reads' = {}
    /\ UNCHANGED <<prog, args, stack, ub, out>>

SearchInit ==
    /\ prog = "string_search"
    /\ \/ args \in {[main |-> FALSE, text |-> t, pattern |-> p] :
                        t \in SeqsUpTo(Chars, MaxTextLen), p \in SeqsUpTo(Chars, MaxPatLen)}
       \/ args = [main |-> TRUE, text |-> MainText, pattern |-> MainPattern]

\* ------------------------------------------------------------- int arrays
IntSamples == {INT_MIN, -1, 0, 1, INT_MAX}

ArrayArgs(mainArr) ==
    {[main |-> FALSE, arr |-> a, size |-> Len(a)] : a \in SeqsUpTo(IntSamples, MaxArrLen)}
        \cup {[main |-> TRUE, arr |-> mainArr, size |-> Len(mainArr)]}

\* ------------------------------------------------------------- new1.c
SumMainData == <<1, 2, 3, 4, 5>>

SumUnoptCond(i, size) == i < size

\* int sum = 0; (int i = 0)
SumUnoptEntry ==
    /\ prog = "sum_array_unoptimized" /\ pc = "entry"
    /\ loc' = [sum |-> 0, i |-> 0]
    /\ pc' = "loop"
    /\ reads' = {}
    /\ UNCHANGED <<prog, args, stack, ret, ub, out>>

\* for (...; i < size; i++) sum += arr[i] * 1;      return sum;
SumUnoptLoop ==
    /\ prog = "sum_array_unoptimized" /\ pc = "loop"
    /\ IF SumUnoptCond(loc.i, args.size)
       THEN /\ reads' = {Rd("arr", loc.i)}
            /\ \E v \in ReadInt(args.arr, loc.i) : \E o \in IntAdd(loc.sum, v * 1) :
                  /\ ub' = (ub \/ o.ub \/ loc.i >= Len(args.arr))
                  /\ IF o.trap
                     THEN pc' = "trap" /\ loc' = loc
                     ELSE pc' = "loop" /\ loc' = [sum |-> o.val, i |-> loc.i + 1]
            /\ ret' = ret
       ELSE /\ reads' = {}
            /\ ret' = loc.sum
            /\ pc' = "return"
            /\ UNCHANGED <<loc, ub>>
    /\ UNCHANGED <<prog, args, stack, out>>

SumUnoptInit ==
    /\ prog = "sum_array_unoptimized"
    /\ args \in ArrayArgs(SumMainData)

\* ------------------------------------------------------------- new2.c
\* the unrolled loop runs while one element is left
SumOptPairCond_NoMargin(i, size) == i < size

SumOptPairCond(i, size) == i < size - 1

SumOptRestCond(i, size) == i < size

\* int sum = 0; int i = 0;
SumOptEntry ==
    /\ prog = "sum_array_optimized" /\ pc = "entry"
    /\ loc' = [sum |-> 0, i |-> 0]
    /\ pc' = "pairs"
    /\ reads' = {}
    /\ UNCHANGED <<prog, args, stack, ret, ub, out>>

\* for (; i < size - 1; i += 2) sum += arr[i] + arr[i + 1];
SumOptPairs ==
    /\ prog = "sum_array_optimized" /\ pc = "pairs"
    /\ IF SumOptPairCond(loc.i, args.size)
       THEN /\ reads' = {Rd("arr", loc.i), Rd("arr", loc.i + 1)}
            /\ \E v \in ReadInt(args.arr, loc.i), w \in ReadInt(args.arr, loc.i + 1) :
               \E t \in IntAdd(v, w) : \E o \in IntAdd(loc.sum, t.val) :
                  /\ ub' = (ub \/ t.ub \/ (~t.trap /\ o.ub) \/ loc.i + 1 >= Len(args.arr))
                  /\ IF t.trap \/ o.trap
                     THEN pc' = "trap" /\ loc' = loc
                     ELSE pc' = "pairs" /\ loc' = [sum |-> o.val, i |-> loc.i + 2]
       ELSE /\ reads' = {}
            /\ pc' = "rest"
            /\ UNCHANGED <<loc, ub>>
    /\ UNCHANGED <<prog, args, stack, ret, out>>

\* for (; i < size; i++) sum += arr[i];      return sum;
SumOptRest ==
    /\ prog = "sum_array_optimized" /\ pc = "rest"
    /\ IF SumOptRestCond(loc.i, args.size)
       THEN /\ reads' = {Rd("arr", loc.i)}
            /\ \E v \in ReadInt(args.arr, loc.i) : \E o \in IntAdd(loc.sum, v) :
                  /\ ub' = (ub \/ o.ub \/ loc.i >= Len(args.arr))
                  /\ IF o.trap
                     THEN pc' = "trap" /\ loc' = loc
                     ELSE pc' = "rest" /\ loc' = [sum |-> o.val, i |-> loc.i + 1]
            /\ ret' = ret
       ELSE /\ reads' = {}
            /\ ret' = loc.sum
            /\ pc' = "return"
            /\ UNCHANGED <<loc, ub>>
    /\ UNCHANGED <<prog, args, stack, out>>

SumOptInit ==
    /\ prog = "sum_array_optimized"
    /\ args \in ArrayArgs(SumMainData)

\* ------------------------------------------------------------- array_operations.c
MaxMainArr == <<3, 5, 7, 2, 8, 6, 4, 10, 12, 1>>

MaxLoopCond(i, n) == i < n

\* the comparison is inverted
MaxGreater_Less(v, max) == v < max

MaxGreater(v, max) == v > max

\* int max = arr[0]; (int i = 1)
MaxEntry ==
    /\ prog = "find_max" /\ pc = "entry"
    /\ reads' = {Rd("arr", 0)}
    /\ ub' = (ub \/ Len(args.arr) = 0)
    /\ \E v \in ReadInt(args.arr, 0) : loc' = [max |-> v, i |-> 1]
    /\ pc' = "loop"
    /\ UNCHANGED <<prog, args, stack, ret, out>>

\* for (...; i < n; i++) if (arr[i] > max) max = arr[i];      return max;
MaxLoop ==
    /\ prog = "find_max" /\ pc = "loop"
    /\ IF MaxLoopCond(loc.i, args.size)
       THEN /\ reads' = {Rd("arr", loc.i)}
            /\ ub' = (ub \/ loc.i >= Len(args.arr))
            /\ \E v \in ReadInt(args.arr, loc.i) :
                  loc' = [max |-> IF MaxGreater(v, loc.max) THEN v ELSE loc.max,
                          i |-> loc.i + 1]
            /\ UNCHANGED <<pc, ret>>
       ELSE /\ reads' = {}
            /\ ret' = loc.max
            /\ pc' = "return"
            /\ UNCHANGED <<loc, ub>>
    /\ UNCHANGED <<prog, args, stack, out>>

MaxInit ==
    /\ prog = "find_max"
    /\ args \in ArrayArgs(MaxMainArr)

\* ------------------------------------------------------------- gcd_algorithm.c
GcdArgs ==
    {[main |-> FALSE, a |-> a, b |-> b] : a, b \in (0 - MaxGcdArg)..MaxGcdArg}
        \cup {[main |-> TRUE, a |-> 48, b |-> 18]}

GcdLoopCond(b) == b # 0

\* the parameters a and b are the loop's variables
GcdEntry ==
    /\ prog = "gcd" /\ pc = "entry"
    /\ loc' = [a |-> args.a, b |-> args.b]
    /\ pc' = "loop"
    /\ UNCHANGED <<prog, args, stack, ret, reads, ub, out>>

\* the assignment a = temp is missing
GcdLoop_NoSwap ==
    /\ prog = "gcd" /\ pc = "loop"
    /\ IF GcdLoopCond(loc.b)
       THEN /\ loc' = [a |-> loc.a, b |-> CRem(loc.a, loc.b)]
            /\ UNCHANGED <<pc, ret>>
       ELSE /\ ret' = loc.a
            /\ pc' = "return"
            /\ loc' = loc
    /\ UNCHANGED <<prog, args, stack, reads, ub, out>>

\* while (b != 0) { int temp = b; b = a % b; a = temp; }      return a;
GcdLoop ==
    /\ prog = "gcd" /\ pc = "loop"
    /\ IF GcdLoopCond(loc.b)
       THEN /\ LET temp == loc.b
               IN loc' = [a |-> temp, b |-> CRem(loc.a, loc.b)]
            /\ UNCHANGED <<pc, ret>>
       ELSE /\ ret' = loc.a
            /\ pc' = "return"
            /\ loc' = loc
    /\ UNCHANGED <<prog, args, stack, reads, ub, out>>

GcdInit ==
    /\ prog = "gcd"
    /\ args \in GcdArgs

\* ------------------------------------------------------------- fibonacci_recursive.c
FibBase(n) == n <= 1

\* int fibonacci(int n), as the value it returns
RECURSIVE fibonacci(_)
fibonacci(n) ==
    IF FibBase(n) THEN n ELSE fibonacci(n - 1) + fibonacci(n - 2)

FibArgs == {[main |-> FALSE, n |-> n] : n \in {INT_MIN} \cup (-2..MaxFibArg)}

Frame(n) == [n |-> n, at |-> "call", r1 |-> 0]

Top == stack[Len(stack)]

Pop == SubSeq(stack, 1, Len(stack) - 1)

\* the outermost call fibonacci(n)
FibEntry ==
    /\ prog = "fibonacci" /\ pc = "entry"
    /\ stack' = <<Frame(args.n)>>
    /\ loc' = [rv |-> 0]
    /\ pc' = "run"
    /\ UNCHANGED <<prog, args, ret, reads, ub, out>>

\* if (n <= 1) return n;   otherwise evaluate fibonacci(n-1)
FibCall ==
    /\ prog = "fibonacci" /\ pc = "run"
    /\ stack # << >> /\ Top.at = "call"
    /\ IF FibBase(Top.n)
       THEN /\ stack' = Pop
            /\ loc' = [rv |-> Top.n]
       ELSE /\ stack' = Pop \o <<[Top EXCEPT !.at = "first"], Frame(Top.n - 1)>>
            /\ loc' = loc
    /\ UNCHANGED <<prog, pc, args, ret, reads, ub, out>>

\* fibonacci(n-1) has returned: evaluate fibonacci(n-2)
FibFirst ==
    /\ prog = "fibonacci" /\ pc = "run"
    /\ stack # << >> /\ Top.at = "first"
    /\ stack' = Pop \o <<[Top EXCEPT !.at = "second", !.r1 = loc.rv], Frame(Top.n - 2)>>
    /\ UNCHANGED <<prog, pc, args, loc, ret, reads, ub, out>>

\* fibonacci(n-2) has returned: return fibonacci(n-1) + fibonacci(n-2)
FibSecond ==
    /\ prog = "fibonacci" /\ pc = "run"
    /\ stack # << >> /\ Top.at = "second"
    /\ \E o \in IntAdd(Top.r1, loc.rv) :
          /\ ub' = (ub \/ o.ub)
          /\ IF o.trap
             THEN pc' = "trap" /\ UNCHANGED <<stack, loc>>
             ELSE pc' = pc /\ stack' = Pop /\ loc' = [rv |-> o.val]
    /\ UNCHANGED <<prog, args, ret, reads, out>>

\* the outermost call returns
FibReturn ==
    /\ prog = "fibonacci" /\ pc = "run"
    /\ stack = << >>
    /\ ret' = loc.rv
    /\ pc' = "return"
    /\ UNCHANGED <<prog, args, loc, stack, reads, ub, out>>

FibInit ==
    /\ prog = "fibonacci"
    /\ args \in FibArgs

\* the loop stops one index early
FibMainCond_Short(i) == i < 19

FibMainCond(i) == i < 20

\* main: int result = 0; (int i = 0)
FibMainEntry ==
    /\ prog = "fibonacci_main" /\ pc = "entry"
    /\ loc' = [result |-> 0, i |-> 0]
    /\ pc' = "loop"
    /\ UNCHANGED <<prog, args, stack, ret, reads, ub, out>>

\* main: for (...; i < 20; i++) result += fibonacci(i);
FibMainLoop ==
    /\ prog = "fibonacci_main" /\ pc = "loop"
    /\ IF FibMainCond(loc.i)
       THEN \E o \in IntAdd(loc.result, fibonacci(loc.i)) :
               /\ ub' = (ub \/ o.ub)
               /\ IF o.trap
                  THEN pc' = "trap" /\ loc' = loc
                  ELSE pc' = pc /\ loc' = [result |-> o.val, i |-> loc.i + 1]
       ELSE /\ pc' = "print"
            /\ UNCHANGED <<loc, ub>>
    /\ UNCHANGED <<prog, args, stack, ret, reads, out>>

FibMainInit ==
    /\ prog = "fibonacci_main"
    /\ args = [main |-> TRUE]

\* ------------------------------------------------------------- C double
\* A double whose value is m / 2^e, m odd or e = 0.  The values computed
\* here have mantissas far below 2^53, so every operation is exact.
RECURSIVE Pow2(_)
Pow2(e) == IF e = 0 THEN 1 ELSE 2 * Pow2(e - 1)

RECURSIVE Dyadic(_, _)
Dyadic(m, e) ==
    IF e > 0 /\ m % 2 = 0 THEN Dyadic(m \div 2, e - 1) ELSE [m |-> m, e |-> e]

DMul(p, q) == Dyadic(p.m * q.m, p.e + q.e)

DAdd(p, q) ==
    LET e == IF p.e > q.e THEN p.e ELSE q.e
    IN Dyadic(p.m * Pow2(e - p.e) + q.m * Pow2(e - q.e), e)

ReadDouble(a, k) ==
    IF k >= 0 /\ k < Len(a) THEN {a[k + 1]} ELSE {Dyadic(0, 0), Dyadic(-1, 0), Dyadic(1, 1)}

\* ------------------------------------------------------------- polynomial_eval.c
PolyMainCoeffs == <<Dyadic(1, 0), Dyadic(2, 0), Dyadic(3, 0), Dyadic(4, 0)>>
PolyMainX == Dyadic(5, 1)

\* the highest-degree term is left out
PolyLoopCond_Strict(i, degree) == i < degree

PolyLoopCond(i, degree) == i <= degree

PolyNextPower(power, x) == DMul(power, x)

\* double result = 0.0; double power = 1.0; (int i = 0)
PolyEntry ==
    /\ prog = "polynomial" /\ pc = "entry"
    /\ loc' = [result |-> Dyadic(0, 0), power |-> Dyadic(1, 0), i |-> 0]
    /\ pc' = "loop"
    /\ reads' = {}
    /\ UNCHANGED <<prog, args, stack, ret, ub, out>>

\* for (...; i <= degree; i++) { result += coeffs[i] * power; power *= x; }
PolyLoop ==
    /\ prog = "polynomial" /\ pc = "loop"
    /\ IF PolyLoopCond(loc.i, args.degree)
       THEN /\ reads' = {Rd("coeffs", loc.i)}
            /\ ub' = (ub \/ loc.i >= Len(args.coeffs))
            /\ \E c \in ReadDouble(args.coeffs, loc.i) :
                  loc' = [result |-> DAdd(loc.result, DMul(c, loc.power)),
                          power |-> PolyNextPower(loc.power, args.x),
                          i |-> loc.i + 1]
            /\ UNCHANGED <<pc, ret>>
       ELSE /\ reads' = {}
            /\ ret' = loc.result
            /\ pc' = "return"
            /\ UNCHANGED <<loc, ub>>
    /\ UNCHANGED <<prog, args, stack, out>>

PolyInit ==
    /\ prog = "polynomial"
    /\ args = [main |-> TRUE, x |-> PolyMainX, coeffs |-> PolyMainCoeffs, degree |-> 3]

\* ------------------------------------------------------------- printf
DigitChar(d) == <<"0", "1", "2", "3", "4", "5", "6", "7", "8", "9">>[d + 1]

RECURSIVE Digits(_)
Digits(n) ==
    IF n < 10 THEN <<DigitChar(n)>> ELSE Digits(n \div 10) \o <<DigitChar(n % 10)>>

\* printf's %d
FormatD(n) == IF n < 0 THEN <<"-">> \o Digits(-n) ELSE Digits(n)

\* printf's %.2f: the value rounded to the nearest hundredth, ties to even
FormatF2(d) ==
    LET neg == d.m < 0
        num == (IF neg THEN -d.m ELSE d.m) * 100
        den == Pow2(d.e)
        q == num \div den
        r == num % den
        cents == IF 2 * r > den \/ (2 * r = den /\ q % 2 = 1) THEN q + 1 ELSE q
    IN (IF neg /\ cents > 0 THEN <<"-">> ELSE << >>)
           \o Digits(cents \div 100)
           \o <<".", DigitChar((cents % 100) \div 10), DigitChar(cents % 10)>>

\* the line each main prints for the value r its routine returned
MainOutput(p, r) ==
    CASE p = "find_max" -> <<"Maximum element: ">> \o FormatD(r) \o <<"\n">>
      [] p = "gcd" -> <<"GCD of ">> \o FormatD(args.a) \o <<" and ">> \o FormatD(args.b)
                          \o <<" is ">> \o FormatD(r) \o <<"\n">>
      [] p = "sum_array_unoptimized" -> <<"Sum (Unoptimized): ">> \o FormatD(r) \o <<"\n">>
      [] p = "sum_array_optimized" -> <<"Sum (Optimized): ">> \o FormatD(r) \o <<"\n">>
      [] p = "polynomial" -> <<"Result: ">> \o FormatF2(r) \o <<"\n">>
      [] p = "string_search" -> <<"Pattern found at index: ">> \o FormatD(r) \o <<"\n">>
      [] p = "fibonacci_main" -> <<"Result: ">> \o FormatD(r) \o <<"\n">>

\* main: printf(..., routine(...)); return 0;
MainPrintf ==
    /\ args.main /\ pc = "return"
    /\ out' = MainOutput(prog, ret)
    /\ pc' = "exit"
    /\ reads' = {}
    /\ UNCHANGED <<prog, args, loc, stack, ret, ub>>

\* fibonacci_recursive.c main: printf("Result: %d\n", result); return 0;
FibMainPrintf ==
    /\ prog = "fibonacci_main" /\ pc = "print"
    /\ out' = MainOutput(prog, loc.result)
    /\ pc' = "exit"
    /\ UNCHANGED <<prog, args, loc, stack, ret, reads, ub>>

\* ------------------------------------------------------------- all programs
Init ==
    /\ pc = "entry"
    /\ loc = << >>
    /\ stack = << >>
    /\ ret = None
    /\ reads = {}
    /\ ub = FALSE
    /\ out = << >>
    /\ \/ SearchInit
       \/ SumUnoptInit
       \/ SumOptInit
       \/ MaxInit
       \/ GcdInit
       \/ FibInit
       \/ FibMainInit
       \/ PolyInit

Next ==
    \/ SearchEntry
    \/ SearchOuter
    \/ SearchInner
    \/ SearchAfter
    \/ SumUnoptEntry
    \/ SumUnoptLoop
    \/ SumOptEntry
    \/ SumOptPairs
    \/ SumOptRest
    \/ MaxEntry
    \/ MaxLoop
    \/ GcdEntry
    \/ GcdLoop
    \/ FibEntry
    \/ FibCall
    \/ FibFirst
    \/ FibSecond
    \/ FibReturn
    \/ FibMainEntry
    \/ FibMainLoop
    \/ PolyEntry
    \/ PolyLoop
    \/ MainPrintf
    \/ FibMainPrintf

Spec == Init /\ [][Next]_vars

\* The scheduling of a single-threaded program: it takes its next step.
LiveSpec == Spec /\ WF_vars(Next)

\* ============================================================= properties
Returned == pc \in {"return", "exit"}

Finished == pc \in {"return", "exit", "trap"}

Exited(p) == prog = p /\ args.main /\ pc = "exit"

\* ------------------------------------------------------------- C1
MatchAt(text, pattern, k) == \A q \in 1..Len(pattern) : text[k + q] = pattern[q]

Offsets(text, pattern) ==
    {k \in 0..(Len(text) - Len(pattern)) : MatchAt(text, pattern, k)}

\* C1: for a pattern of length P >= 1, string_search returns the smallest
\* offset at which the whole pattern matches the text, and -1 exactly when
\* there is no such offset, in particular whenever P > T.
C1_SearchFirstMatch ==
    (prog = "string_search" /\ Returned /\ Len(args.pattern) >= 1) =>
        LET O == Offsets(args.text, args.pattern)
        IN /\ (O # {} => ret \in O /\ \A k \in O : ret <= k)
           /\ (O = {} <=> ret = -1)
           /\ (Len(args.pattern) > Len(args.text) => ret = -1)

C1_Witness ==
    /\ prog = "string_search" /\ pc = "return" /\ ~args.main
    /\ Cardinality(Offsets(args.text, args.pattern)) >= 2
    /\ Len(args.pattern) >= 2
    /\ ret >= 1

\* ------------------------------------------------------------- C2
RECURSIVE RunningSumsFit(_, _, _)
RunningSumsFit(arr, k, s) ==
    k > Len(arr) \/ (~AddOverflows(s, arr[k]) /\ RunningSumsFit(arr, k + 1, s + arr[k]))

RECURSIVE SeqSum(_)
SeqSum(arr) == IF arr = << >> THEN 0 ELSE SeqSum(SubSeq(arr, 1, Len(arr) - 1)) + arr[Len(arr)]

\* C2: sum_array_unoptimized and sum_array_optimized agree on every input:
\* each returns the arithmetic sum of arr[0..size-1] (stated for the
\* sequences whose running sums are ints, the inputs on which the plain loop
\* of sum_array_unoptimized is defined); {1,2,3,4,5} gives 15.
C2_SumsAgree ==
    (/\ prog \in {"sum_array_unoptimized", "sum_array_optimized"}
     /\ Finished
     /\ RunningSumsFit(args.arr, 1, 0)) =>
        /\ pc # "trap"
        /\ ret = SeqSum(args.arr)
        /\ (args.main => ret = 15)

\* ------------------------------------------------------------- C3
Divides(d, n) == \E k \in 0..n : n = k * d

CommonDivisors(a, b) ==
    {d \in 0..((IF a > b THEN a ELSE b) + 1) : Divides(d, a) /\ Divides(d, b)}

IsGreatestCommonDivisor(g, a, b) ==
    /\ g \in CommonDivisors(a, b)
    /\ \A d \in CommonDivisors(a, b) : d <= g

\* C3 as claimed: for all non-negative (a, b), gcd(a, b) divides both and is
\* the greatest integer dividing both; gcd(48, 18) = 6.
C3_GcdGreatestAll ==
    (prog = "gcd" /\ Returned /\ args.a >= 0 /\ args.b >= 0) =>
        /\ IsGreatestCommonDivisor(ret, args.a, args.b)
        /\ (args.main => ret = 6)

\* C3 amended: the same for all non-negative (a, b) other than (0, 0);
\* gcd(0, 0) = 0, where every integer divides both and none is greatest.
C3_GcdGreatest ==
    (prog = "gcd" /\ Returned /\ args.a >= 0 /\ args.b >= 0) =>
        /\ (args.a # 0 \/ args.b # 0) => IsGreatestCommonDivisor(ret, args.a, args.b)
        /\ (args.a = 0 /\ args.b = 0) => ret = 0
        /\ (args.main => ret = 6)

C3_Witness ==
    /\ prog = "gcd" /\ pc = "return" /\ ~args.main
    /\ args.a > args.b /\ args.b > 1
    /\ ret > 1 /\ ret < args.b

\* ------------------------------------------------------------- C4
Elements(arr) == {arr[k] : k \in 1..Len(arr)}

\* C4: for a non-empty array, find_max returns an element that is >= every
\* element; main's array {3,5,7,2,8,6,4,10,12,1} gives 12.
C4_FindMaxGreatest ==
    (prog = "find_max" /\ Returned /\ args.size >= 1) =>
        /\ ret \in Elements(args.arr)
        /\ \A v \in Elements(args.arr) : v <= ret
        /\ (args.main => ret = 12)

C4_Witness ==
    /\ prog = "find_max" /\ pc = "return" /\ ~args.main
    /\ Len(args.arr) >= 3
    /\ ret # args.arr[1] /\ ret # args.arr[Len(args.arr)]

\* ------------------------------------------------------------- C5
\* C5 as claimed: main's search returns 15 and prints
\* "Pattern found at index: 15".
C5_MainSearch15 ==
    Exited("string_search") =>
        /\ ret = 15
        /\ out = <<"Pattern found at index: ", "1", "5", "\n">>

\* C5 amended: main's search returns 10, the first offset at which
\* "ABABCAB" occurs in the text, and prints "Pattern found at index: 10".
C5_MainSearch10 ==
    Exited("string_search") =>
        /\ ret = 10
        /\ out = <<"Pattern found at index: ", "1", "0", "\n">>

C5_Witness == Exited("string_search") /\ args.text = MainText /\ ret # -1

\* ------------------------------------------------------------- C6
\* the Fibonacci numbers by iteration
RECURSIVE FibPair(_)
FibPair(n) ==
    IF n = 0 THEN <<0, 1>> ELSE LET p == FibPair(n - 1) IN <<p[2], p[1] + p[2]>>

\* the recursion of the code: n for n <= 1, else the sum of the two before
FibRecurrence ==
    (prog = "fibonacci" /\ pc = "return") =>
        ret = IF args.n <= 1 THEN args.n ELSE FibPair(args.n)[1]

\* C6 as claimed: main's sum of fibonacci(0..19) is 6764.
C6_FibSum6764 ==
    /\ FibRecurrence
    /\ Exited("fibonacci_main") => loc.result = 6764

\* C6 amended: with the same recursion, main's sum of fibonacci(0..19) is
\* 10945 (6764 is the sum over 0..18), printed as "Result: 10945".
C6_FibSum10945 ==
    /\ FibRecurrence
    /\ Exited("fibonacci_main") =>
          /\ loc.result = 10945
          /\ loc.i = 20
          /\ out = <<"Result: ", "1", "0", "9", "4", "5", "\n">>

C6_Witness == Exited("fibonacci_main") /\ loc.i = 20 /\ out # << >>

\* ------------------------------------------------------------- C7
\* 1 + 2(2.5) + 3(2.5)^2 + 4(2.5)^3
PolyExpanded ==
    LET x == PolyMainX
        x2 == DMul(x, x)
        x3 == DMul(x2, x)
    IN DAdd(DAdd(DAdd(Dyadic(1, 0), DMul(Dyadic(2, 0), x)), DMul(Dyadic(3, 0), x2)),
            DMul(Dyadic(4, 0), x3))

\* C7 as claimed: polynomial(2.5, {1,2,3,4}, 3) is 86.0, printed as 86.00.
C7_Poly86 ==
    Exited("polynomial") =>
        /\ ret = Dyadic(86, 0)
        /\ out = <<"Result: ", "8", "6", ".", "0", "0", "\n">>

\* C7 amended: polynomial(2.5, {1,2,3,4}, 3) is 1 + 2(2.5) + 3(2.5)^2 +
\* 4(2.5)^3 = 87.25 (349/4), printed as 87.25.
C7_Poly8725 ==
    Exited("polynomial") =>
        /\ ret = PolyExpanded
        /\ ret = Dyadic(349, 2)
        /\ out = <<"Result: ", "8", "7", ".", "2", "5", "\n">>

C7_Witness == Exited("polynomial") /\ loc.i = 4 /\ loc.power = Dyadic(625, 4)

\* ------------------------------------------------------------- C8
\* C8: with an empty pattern string_search returns 0, whatever the text,
\* the empty text included.
C8_EmptyPattern ==
    (prog = "string_search" /\ Returned /\ args.pattern = << >>) => ret = 0

C8_Witness ==
    /\ prog = "string_search" /\ pc = "return"
    /\ args.pattern = << >> /\ args.text = << >>

\* ------------------------------------------------------------- C9
InBounds(r, len) == r.index >= 0 /\ r.index < len

\* C9: every array read stays inside the array: text[i+j] and pattern[j] in
\* string_search, arr[i] and arr[i+1] in sum_array_optimized, arr[i] in
\* sum_array_unoptimized, and arr[0], arr[i] in find_max called with n >= 1.
C9_ReadsInBounds ==
    \A r \in reads :
        /\ prog = "string_search" =>
              /\ r.array = "text" => InBounds(r, Len(args.text))
              /\ r.array = "pattern" => InBounds(r, Len(args.pattern))
        /\ prog \in {"sum_array_unoptimized", "sum_array_optimized"} =>
              InBounds(r, args.size)
        /\ (prog = "find_max" /\ args.size >= 1) => InBounds(r, args.size)

C9_Witness ==
    /\ prog = "sum_array_optimized" /\ pc = "pairs"
    /\ args.size >= 4
    /\ reads = {Rd("arr", args.size - 2), Rd("arr", args.size - 1)}

\* ------------------------------------------------------------- C10
GcdNonNegative == prog = "gcd" /\ args.a >= 0 /\ args.b >= 0

\* C10: gcd on non-negative arguments, fibonacci on every n and
\* string_search on every text and pattern return; in gcd b strictly
\* decreases (down to 0), in string_search i only increases and stays
\* within T - P + 1.
C10_Termination ==
    /\ GcdNonNegative ~> Returned
    /\ (prog = "fibonacci") ~> Returned
    /\ (prog = "string_search") ~> Returned
    /\ [][(GcdNonNegative /\ pc = "loop" /\ pc' = "loop") =>
              (loc'.b >= 0 /\ loc'.b < loc.b)]_vars
    /\ [][(prog = "string_search" /\ pc \in {"outer", "inner", "after"} /\ pc' # "return") =>
              (loc'.i >= loc.i /\ loc'.i <= loc.text_len - loc.pattern_len + 1)]_vars

C10_Witness ==
    /\ prog = "fibonacci" /\ pc = "return"
    /\ args.n >= 5 /\ ret >= 5

====
